---- MODULE Spec2Model ----
(***************************************************************************)
(* Model of the cellular automaton engine, automaton/mod.rs.               *)
(*                                                                         *)
(* Automaton { grid, rules, gen } with advance, advance_multi and          *)
(* set_point.  advance is modelled one loop iteration at a time (pc,       *)
(* new_grid and ci are its locals), so that the state of the live grid     *)
(* during a sweep is observable.  Grid, Rules and CoordinatesIterator live *)
(* in modules that are not part of the sources at hand; they are modelled  *)
(* from the specification, except for the policy at the edge of the grid,  *)
(* which the 1000-generation test of mod.rs pins to wrap-around.           *)
(***************************************************************************)
EXTENDS Integers, Sequences, FiniteSets, TLC

\* ---------------------------------------------------------------- bounds
MaxAxis == 3
MaxVal == 1
MaxGen == 3
MaxN == 2

\* ------------------------------------------------------ program constants
Generations == 1000
GridLen == 26

Ok == "Ok"
ShapeMismatch == "ShapeMismatch"
OutOfBounds == "OutOfBounds"
Errors == {ShapeMismatch, OutOfBounds}

\* ------------------------------------------------------------ arithmetic
RECURSIVE Product(_)
Product(s) == IF s = <<>> THEN 1 ELSE Head(s) * Product(Tail(s))

\* row-major (last axis fastest) offset of a position in a dense array
RECURSIVE Offset(_, _)
Offset(shape, pos) ==
    IF pos = <<>> THEN 0
    ELSE Head(pos) * Product(Tail(shape)) + Offset(Tail(shape), Tail(pos))

\* ---------------------------------------------------- CoordinatesIterator
\* every position of dims, last axis fastest
Coordinates(dims) ==
    [k \in 1..Product(dims) |->
        [i \in 1..Len(dims) |->
            ((k - 1) \div Product(SubSeq(dims, i + 1, Len(dims)))) % dims[i]]]

\* -------------------------------------------------------------------- Grid
\* a dense array: its own shape and its cells in row-major order
Array(shape, cells) == [shape |-> shape, cells |-> cells]

\* Grid::new(dims, array): keeps the dims it is given next to the array
GridNew(dims, arr) == [dims |-> dims, shape |-> arr.shape, cells |-> arr.cells]

\* Grid::dims()
GridDims(g) == g.dims

\* Grid::grid(): a copy of the backing array
GridSnapshot(g) == Array(g.shape, g.cells)

WellFormed(g) == g.shape = g.dims /\ Len(g.cells) = Product(g.dims)

ValidCoordinate(g, point) ==
    /\ Len(point) = Len(g.shape)
    /\ \A i \in 1..Len(point) : point[i] < g.shape[i]

CellAt(g, point) == g.cells[Offset(g.shape, point) + 1]

\* Grid::set_point(point, val)
GridSetPoint(g, point, val) ==
    IF Len(point) # Len(g.shape)
    THEN [err |-> ShapeMismatch, grid |-> g]
    ELSE IF \E i \in 1..Len(point) : point[i] >= g.shape[i]
    THEN [err |-> OutOfBounds, grid |-> g]
    ELSE [err |-> Ok,
          grid |-> [g EXCEPT !.cells[Offset(g.shape, point) + 1] = val]]

\* variant: a neighbour past an edge is read at the component itself
StayIndex(c, off, n) == IF c + off < 0 \/ c + off >= n THEN c ELSE c + off

\* variant: the neighbour past an edge is the edge cell itself
ClampIndex(c, off, n) ==
    IF c + off < 0 THEN 0 ELSE IF c + off >= n THEN n - 1 ELSE c + off

\* the neighbour of component c at offset off on an axis of size n: the
\* grid is periodic, the neighbour past an edge is the cell at the other edge
WrapIndex(c, off, n) == (c + n + off) % n

\* offset (-1, 0, +1) of axis i in the k-th entry of a neighborhood of d
\* axes: first axis outermost, offsets ascending
NeighborOffset(k, i, d) == (((k - 1) \div (3 ^ (d - i))) % 3) - 1

\* Grid::neighborhood(point)
Neighborhood(g, point) ==
    IF Len(point) # Len(g.shape)
    THEN [err |-> ShapeMismatch, val |-> <<>>]
    ELSE LET d == Len(point) IN
         [err |-> Ok,
          val |-> [k \in 1..(3 ^ d) |->
                     CellAt(g, [i \in 1..d |->
                         WrapIndex(point[i], NeighborOffset(k, i, d), g.shape[i])])]]

\* ------------------------------------------------------------------- Rules
Rule(pattern, output) == [pattern |-> pattern, output |-> output]

\* variant: the scan goes on and the last matching rule wins
RECURSIVE RulesApplyLast(_, _)
RulesApplyLast(rs, nb) ==
    IF rs = <<>> THEN [some |-> FALSE, val |-> 0]
    ELSE LET rest == RulesApplyLast(Tail(rs), nb) IN
         IF rest.some THEN rest
         ELSE IF Head(rs).pattern = nb THEN [some |-> TRUE, val |-> Head(rs).output]
         ELSE rest

\* Rules::apply(neighborhood): first rule in list order whose pattern matches
RECURSIVE RulesApply(_, _)
RulesApply(rs, nb) ==
    IF rs = <<>> THEN [some |-> FALSE, val |-> 0]
    ELSE IF Head(rs).pattern = nb THEN [some |-> TRUE, val |-> Head(rs).output]
    ELSE RulesApply(Tail(rs), nb)

\* --------------------------------------------------------------- Automaton
\* gen is a u32.  The model keeps its 32-bit word; the integers of the model
\* checker are 32-bit and signed, so a word from 2^31 on is written as the
\* negative integer with the same bits: 4294967295, the largest u32, is -1.
U32Max == -1

\* a <= b for two such words, as unsigned numbers
U32Leq(a, b) == IF (a >= 0) = (b >= 0) THEN a <= b ELSE a >= 0

\* variant: the counter is left alone
NextGenStuck(g) == g

\* self.gen += 1 where it does not panic: the word after g, 0 after the largest
NextGen(g) ==
    IF g = U32Max THEN 0
    ELSE IF g = 2147483647 THEN (-2147483647) - 1
    ELSE g + 1

\* the builds of the crate: overflow checks are on in debug, off in release
Builds == {"debug", "release"}

\* variant: the neighborhood is read from the grid being written
SweepBodyReadsNew(g, ng, rs, coordinate) ==
    LET nb == Neighborhood(ng, coordinate) IN
    IF nb.err # Ok THEN [err |-> nb.err, new_grid |-> ng, wrote |-> FALSE]
    ELSE LET m == RulesApply(rs, nb.val) IN
         IF m.some
         THEN LET w == GridSetPoint(ng, coordinate, m.val) IN
              [err |-> w.err, new_grid |-> w.grid, wrote |-> w.err = Ok]
         ELSE [err |-> Ok, new_grid |-> ng, wrote |-> FALSE]

\* variant: a match forces the cell to 1, as Automaton::set_point does
SweepBodyWritesOne(g, ng, rs, coordinate) ==
    LET nb == Neighborhood(g, coordinate) IN
    IF nb.err # Ok THEN [err |-> nb.err, new_grid |-> ng, wrote |-> FALSE]
    ELSE LET m == RulesApply(rs, nb.val) IN
         IF m.some
         THEN LET w == GridSetPoint(ng, coordinate, 1) IN
              [err |-> w.err, new_grid |-> w.grid, wrote |-> w.err = Ok]
         ELSE [err |-> Ok, new_grid |-> ng, wrote |-> FALSE]

\* one iteration of the for loop of advance: reads g, writes ng
SweepBody(g, ng, rs, coordinate) ==
    LET nb == Neighborhood(g, coordinate) IN
    IF nb.err # Ok THEN [err |-> nb.err, new_grid |-> ng, wrote |-> FALSE]
    ELSE LET m == RulesApply(rs, nb.val) IN
         IF m.some
         THEN LET w == GridSetPoint(ng, coordinate, m.val) IN
              [err |-> w.err, new_grid |-> w.grid, wrote |-> w.err = Ok]
         ELSE [err |-> Ok, new_grid |-> ng, wrote |-> FALSE]

\* the whole for loop of advance over the coordinates cs
RECURSIVE Sweep(_, _, _, _)
Sweep(g, ng, rs, cs) ==
    IF cs = <<>> THEN [err |-> Ok, new_grid |-> ng]
    ELSE LET s == SweepBody(g, ng, rs, Head(cs)) IN
         IF s.err # Ok THEN [err |-> s.err, new_grid |-> s.new_grid]
         ELSE Sweep(g, s.new_grid, rs, Tail(cs))

\* variant: the new grid is built on the cells as one flat axis
NewGridFlat(g) == GridNew(GridDims(g), Array(<<Len(g.cells)>>, g.cells))

\* variant: the new grid starts as zeros of the same shape
NewGridZeros(g) ==
    GridNew(GridDims(g), Array(g.shape, [i \in 1..Len(g.cells) |-> 0]))

\* the new grid of advance before the loop: a full copy of the current one
NewGridSeed(g) == GridNew(GridDims(g), GridSnapshot(g))

\* advance() as a function of the automaton a = [grid, gen]
AdvanceFn(a, rs) ==
    LET s == Sweep(a.grid, NewGridSeed(a.grid), rs,
                   Coordinates(GridDims(a.grid))) IN
    IF s.err # Ok THEN [err |-> s.err, grid |-> a.grid, gen |-> a.gen]
    ELSE [err |-> Ok, grid |-> s.new_grid, gen |-> NextGen(a.gen)]

\* n calls of advance() one after the other, whatever each returns
RECURSIVE AdvanceTimes(_, _, _)
AdvanceTimes(n, a, rs) ==
    IF n = 0 THEN a
    ELSE LET r == AdvanceFn(a, rs) IN
         AdvanceTimes(n - 1, [grid |-> r.grid, gen |-> r.gen], rs)

\* ------------------------------------------------------------------- state
VARIABLES
    grid,       \* Automaton.grid
    rules,      \* Automaton.rules
    gen,        \* Automaton.gen
    pc,         \* "idle", "loop" (for loop of advance_multi), "sweep" (for loop of advance)
    new_grid,   \* local of advance
    ci,         \* coordinates the iterator of advance has not produced yet
    todo,       \* iterations the loop of advance_multi has left
    call,       \* the call in flight, or the last one that returned
    res,        \* what the last call returned
    gens,       \* argument of the advance_multi call
    point,      \* argument of the set_point call
    call_pre,   \* history: [grid, gen, rules] when the call was entered
    adv_pre,    \* history: [grid, gen] when advance() was last entered
    adv_res,    \* history: what the last advance() returned, "none" once another call was made
    started,    \* history: advance() executions started by the advance_multi call
    completed,  \* history: advance() executions that returned Ok since construction
    wrote,      \* history: writes into new_grid by the sweep so far
    seen        \* history: coordinates the body of the sweep has run on so far

vars == <<grid, rules, gen, pc, new_grid, ci, todo, call, res, gens, point,
          call_pre, adv_pre, adv_res, started, completed, wrote, seen>>

NoGrid == [dims |-> <<>>, shape |-> <<>>, cells |-> <<>>]
Snapshot == [grid |-> grid, gen |-> gen]
CallSnapshot == [grid |-> grid, gen |-> gen, rules |-> rules]

\* -------------------------------------------------------------- rule tables
Rule110 ==
    << Rule(<<0, 0, 0>>, 0), Rule(<<0, 0, 1>>, 1), Rule(<<0, 1, 0>>, 1),
       Rule(<<0, 1, 1>>, 1), Rule(<<1, 0, 0>>, 0), Rule(<<1, 0, 1>>, 1),
       Rule(<<1, 1, 0>>, 1), Rule(<<1, 1, 1>>, 0) >>

\* the table of test_advance_generation
RulesA == << Rule(<<1, 2, 3>>, 4) >>
GridA == GridNew(<<3>>, Array(<<3>>, <<1, 2, 3>>))

\* partial tables with a repeated pattern
Overlap1D ==
    << Rule(<<0, 1, 0>>, 0), Rule(<<0, 1, 0>>, 1), Rule(<<0, 0, 0>>, 1),
       Rule(<<1, 0, 1>>, 2), Rule(<<0, 0, 0>>, 0) >>

Partial1D ==
    << Rule(<<1, 1, 0>>, 0), Rule(<<0, 0, 1>>, 1), Rule(<<1, 1, 1>>, 2),
       Rule(<<1, 0, 1>>, 1) >>

Table2D ==
    << Rule(<<0, 0, 0, 0, 0, 0, 0, 0, 0>>, 1),
       Rule(<<1, 1, 1, 1, 1, 1, 1, 1, 1>>, 0),
       Rule(<<1, 0, 1, 0, 1, 0, 1, 0, 1>>, 2),
       Rule(<<1, 0, 1, 0, 1, 0, 1, 0, 1>>, 0) >>

Tables(rank) == IF rank = 1 THEN {Rule110, Overlap1D, Partial1D} ELSE {Table2D}

\* -------------------------------------------------------------------- Init
Dims2D == <<2, 2>>
DimsSet == {<<n>> : n \in 1..MaxAxis} \cup {Dims2D}

\* grids whose array has the shape of their dims
CheckedGrids ==
    UNION {{GridNew(d, Array(d, c)) : c \in [1..Product(d) -> 0..MaxVal]} : d \in DimsSet}

\* grids whose array is one cell shorter than their dims say: Grid::new as
\* called in mod.rs returns a Grid, not a Result, whatever it is given
UncheckedGrids ==
    UNION {{GridNew(<<n>>, Array(<<n - 1>>, c)) : c \in [1..(n - 1) -> 0..MaxVal]}
           : n \in 2..MaxAxis}

\* variant: the counter starts at 1
AutomatonNewGenOne(g, rs) ==
    /\ grid = g
    /\ rules = rs
    /\ gen = 1
    /\ pc = "idle"
    /\ new_grid = NoGrid
    /\ ci = <<>>
    /\ todo = 0
    /\ call = "new"
    /\ res = Ok
    /\ gens = 0
    /\ point = <<>>
    /\ call_pre = [grid |-> g, gen |-> 0, rules |-> rs]
    /\ adv_pre = [grid |-> g, gen |-> 0]
    /\ adv_res = "none"
    /\ started = 0
    /\ completed = 0
    /\ wrote = 0
    /\ seen = <<>>

\* Automaton::new(grid, rules)
AutomatonNew(g, rs) ==
    /\ grid = g
    /\ rules = rs
    /\ gen = 0
    /\ pc = "idle"
    /\ new_grid = NoGrid
    /\ ci = <<>>
    /\ todo = 0
    /\ call = "new"
    /\ res = Ok
    /\ gens = 0
    /\ point = <<>>
    /\ call_pre = [grid |-> g, gen |-> 0, rules |-> rs]
    /\ adv_pre = [grid |-> g, gen |-> 0]
    /\ adv_res = "none"
    /\ started = 0
    /\ completed = 0
    /\ wrote = 0
    /\ seen = <<>>

Init ==
    \/ \E g \in CheckedGrids : \E rs \in Tables(Len(g.dims)) : AutomatonNew(g, rs)
    \/ AutomatonNew(GridA, RulesA)

InitUnchecked ==
    \/ Init
    \/ \E g \in UncheckedGrids : \E rs \in Tables(1) : AutomatonNew(g, rs)

\* a grid that advance() leaves as it is under the table rs
FixedPoint(g, rs) ==
    LET r == AdvanceFn([grid |-> g, gen |-> 0], rs) IN r.err = Ok /\ r.grid = g

\* the automaton built from the fixed point g after 4294967293 calls of
\* advance(): each of them returned Ok and left the grid as it was
AutomatonNearOverflow(g, rs) ==
    /\ grid = g
    /\ rules = rs
    /\ gen = U32Max - 2
    /\ pc = "idle"
    /\ new_grid = NoGrid
    /\ ci = <<>>
    /\ todo = 0
    /\ call = "advance"
    /\ res = Ok
    /\ gens = 0
    /\ point = <<>>
    /\ call_pre = [grid |-> g, gen |-> U32Max - 3, rules |-> rs]
    /\ adv_pre = [grid |-> g, gen |-> U32Max - 3]
    /\ adv_res = Ok
    /\ started = 0
    /\ completed = U32Max - 2
    /\ wrote = Cardinality({k \in 1..Len(Coordinates(GridDims(g))) :
                   SweepBody(g, g, rs, Coordinates(GridDims(g))[k]).wrote})
    /\ seen = Coordinates(GridDims(g))

InitOverflow ==
    \E g \in CheckedGrids : \E rs \in Tables(Len(g.dims)) :
        FixedPoint(g, rs) /\ AutomatonNearOverflow(g, rs)

\* ----------------------------------------------------------------- actions
\* variant: the sweep starts at the second coordinate
EnterAdvanceFromSecond ==
    /\ pc' = "sweep"
    /\ ci' = Tail(Coordinates(GridDims(grid)))
    /\ new_grid' = NewGridSeed(grid)
    /\ adv_pre' = Snapshot
    /\ adv_res' = "none"
    /\ wrote' = 0
    /\ seen' = <<>>
    /\ UNCHANGED <<grid, rules, gen, res, completed>>

\* variant: the iterator runs over 0..=size on every axis
EnterAdvanceInclusive ==
    /\ pc' = "sweep"
    /\ ci' = Coordinates([i \in 1..Len(GridDims(grid)) |-> GridDims(grid)[i] + 1])
    /\ new_grid' = NewGridSeed(grid)
    /\ adv_pre' = Snapshot
    /\ adv_res' = "none"
    /\ wrote' = 0
    /\ seen' = <<>>
    /\ UNCHANGED <<grid, rules, gen, res, completed>>

\* advance, up to the for loop: the iterator and the copy of the grid
EnterAdvance ==
    /\ pc' = "sweep"
    /\ ci' = Coordinates(GridDims(grid))
    /\ new_grid' = NewGridSeed(grid)
    /\ adv_pre' = Snapshot
    /\ adv_res' = "none"
    /\ wrote' = 0
    /\ seen' = <<>>
    /\ UNCHANGED <<grid, rules, gen, res, completed>>

\* a call of advance()
CallAdvance ==
    /\ pc = "idle"
    /\ call' = "advance"
    /\ call_pre' = CallSnapshot
    /\ todo' = 0
    /\ started' = 0
    /\ EnterAdvance
    /\ UNCHANGED <<gens, point>>

\* variant: the neighborhood is read from the grid being written
StepOutcomeInPlace == SweepBody(new_grid, new_grid, rules, Head(ci))

\* advance, body of the for loop at the next coordinate: the neighborhood
\* comes from the grid, the write goes to the new grid
StepOutcome == SweepBody(grid, new_grid, rules, Head(ci))

\* variant: a failure swaps in the new grid as far as it was written
AdvanceStepSwapOnFailure ==
    /\ pc = "sweep"
    /\ ci # <<>>
    /\ LET s == StepOutcome IN
       IF s.err = Ok
       THEN /\ new_grid' = s.new_grid
            /\ ci' = Tail(ci)
            /\ wrote' = IF s.wrote THEN wrote + 1 ELSE wrote
            /\ UNCHANGED <<grid, pc, res, adv_res, todo>>
       ELSE /\ pc' = "idle"
            /\ res' = s.err
            /\ adv_res' = s.err
            /\ grid' = new_grid
            /\ new_grid' = NoGrid
            /\ ci' = <<>>
            /\ todo' = 0
            /\ UNCHANGED wrote
    /\ seen' = Append(seen, Head(ci))
    /\ UNCHANGED <<rules, gen, call, gens, point, call_pre, adv_pre,
                   started, completed>>

\* variant: inside advance_multi a failed advance is dropped and the loop goes on
AdvanceStepLoopGoesOn ==
    /\ pc = "sweep"
    /\ ci # <<>>
    /\ LET s == StepOutcome IN
       IF s.err = Ok
       THEN /\ new_grid' = s.new_grid
            /\ ci' = Tail(ci)
            /\ wrote' = IF s.wrote THEN wrote + 1 ELSE wrote
            /\ UNCHANGED <<pc, res, adv_res, todo>>
       ELSE /\ pc' = IF call = "advance_multi" THEN "loop" ELSE "idle"
            /\ res' = IF call = "advance_multi" THEN res ELSE s.err
            /\ adv_res' = s.err
            /\ new_grid' = NoGrid
            /\ ci' = <<>>
            /\ UNCHANGED <<todo, wrote>>
    /\ seen' = Append(seen, Head(ci))
    /\ UNCHANGED <<grid, rules, gen, call, gens, point, call_pre, adv_pre,
                   started, completed>>

\* advance, one iteration of the for loop; a failure returns at once
AdvanceStep ==
    /\ pc = "sweep"
    /\ ci # <<>>
    /\ LET s == StepOutcome IN
       IF s.err = Ok
       THEN /\ new_grid' = s.new_grid
            /\ ci' = Tail(ci)
            /\ wrote' = IF s.wrote THEN wrote + 1 ELSE wrote
            /\ UNCHANGED <<pc, res, adv_res, todo>>
       ELSE /\ pc' = "idle"
            /\ res' = s.err
            /\ adv_res' = s.err
            /\ new_grid' = NoGrid
            /\ ci' = <<>>
            /\ todo' = 0
            /\ UNCHANGED wrote
    /\ seen' = Append(seen, Head(ci))
    /\ UNCHANGED <<grid, rules, gen, call, gens, point, call_pre, adv_pre,
                   started, completed>>

\* advance, after the for loop: the new grid replaces the grid, gen += 1.
\* At the largest u32 the addition wraps to 0 in a release build and panics
\* in a debug build, after the grid was replaced.
AdvanceCommit ==
    /\ pc = "sweep"
    /\ ci = <<>>
    /\ grid' = new_grid
    /\ new_grid' = NoGrid
    /\ \E build \in Builds :
          IF gen = U32Max /\ build = "debug"
          THEN /\ pc' = "panicked"
               /\ UNCHANGED <<gen, res, adv_res, completed>>
          ELSE /\ gen' = NextGen(gen)
               /\ adv_res' = Ok
               /\ completed' = completed + 1
               /\ IF call = "advance_multi"
                  THEN pc' = "loop" /\ UNCHANGED res
                  ELSE pc' = "idle" /\ res' = Ok
    /\ UNCHANGED <<rules, ci, todo, call, gens, point, call_pre, adv_pre,
                   started, wrote, seen>>

\* variant: the loop runs over 1..gens
CallAdvanceMultiShort(n) ==
    /\ pc = "idle"
    /\ pc' = "loop"
    /\ call' = "advance_multi"
    /\ gens' = n
    /\ todo' = IF n = 0 THEN 0 ELSE n - 1
    /\ call_pre' = CallSnapshot
    /\ started' = 0
    /\ adv_res' = "none"
    /\ UNCHANGED <<grid, rules, gen, new_grid, ci, res, point, adv_pre,
                   completed, wrote, seen>>

\* variant: the loop runs over 0..=gens
CallAdvanceMultiInclusive(n) ==
    /\ pc = "idle"
    /\ pc' = "loop"
    /\ call' = "advance_multi"
    /\ gens' = n
    /\ todo' = n + 1
    /\ call_pre' = CallSnapshot
    /\ started' = 0
    /\ adv_res' = "none"
    /\ UNCHANGED <<grid, rules, gen, new_grid, ci, res, point, adv_pre,
                   completed, wrote, seen>>

\* a call of advance_multi(n)
CallAdvanceMulti(n) ==
    /\ pc = "idle"
    /\ pc' = "loop"
    /\ call' = "advance_multi"
    /\ gens' = n
    /\ todo' = n
    /\ call_pre' = CallSnapshot
    /\ started' = 0
    /\ adv_res' = "none"
    /\ UNCHANGED <<grid, rules, gen, new_grid, ci, res, point, adv_pre,
                   completed, wrote, seen>>

\* advance_multi, head of the for loop: the next advance(), or Ok at the end
AdvanceMultiLoop ==
    /\ pc = "loop"
    /\ IF todo = 0
       THEN /\ pc' = "idle"
            /\ res' = Ok
            /\ UNCHANGED <<grid, rules, gen, new_grid, ci, todo, adv_pre,
                           adv_res, started, completed, wrote, seen>>
       ELSE /\ todo' = todo - 1
            /\ started' = started + 1
            /\ EnterAdvance
    /\ UNCHANGED <<call, gens, point, call_pre>>

\* variant: the cell is incremented
SetPointIncrements(p) ==
    /\ pc = "idle"
    /\ call' = "set_point"
    /\ point' = p
    /\ call_pre' = CallSnapshot
    /\ LET w == GridSetPoint(grid, p,
                    IF ValidCoordinate(grid, p) THEN CellAt(grid, p) + 1 ELSE 1) IN
       /\ grid' = w.grid
       /\ res' = w.err
    /\ adv_res' = "none"
    /\ UNCHANGED <<rules, gen, pc, new_grid, ci, todo, gens, adv_pre,
                   started, completed, wrote, seen>>

\* variant: the result of Grid::set_point is dropped
SetPointIgnoresFailure(p) ==
    /\ pc = "idle"
    /\ call' = "set_point"
    /\ point' = p
    /\ call_pre' = CallSnapshot
    /\ grid' = GridSetPoint(grid, p, 1).grid
    /\ res' = Ok
    /\ adv_res' = "none"
    /\ UNCHANGED <<rules, gen, pc, new_grid, ci, todo, gens, adv_pre,
                   started, completed, wrote, seen>>

\* a call of set_point(p): the cell becomes 1 on the live grid
SetPoint(p) ==
    /\ pc = "idle"
    /\ call' = "set_point"
    /\ point' = p
    /\ call_pre' = CallSnapshot
    /\ LET w == GridSetPoint(grid, p, 1) IN
       /\ grid' = w.grid
       /\ res' = w.err
    /\ adv_res' = "none"
    /\ UNCHANGED <<rules, gen, pc, new_grid, ci, todo, gens, adv_pre,
                   started, completed, wrote, seen>>

\* the coordinates callers pass to set_point: good, out of range, wrong length
Points ==
    {<<a>> : a \in 0..MaxAxis} \cup {<<a, b>> : a \in 0..2, b \in 0..2}

Next ==
    \/ gen < MaxGen /\ CallAdvance
    \/ \E n \in 0..MaxN : gen + n <= MaxGen /\ CallAdvanceMulti(n)
    \/ AdvanceMultiLoop
    \/ AdvanceStep
    \/ AdvanceCommit
    \/ \E p \in Points : SetPoint(p)

Spec == Init /\ [][Next]_vars

SpecUnchecked == InitUnchecked /\ [][Next]_vars

SpecOverflow == InitOverflow /\ [][Next]_vars

\* test_rule_110_1000_generations: rule 110 on 26 cells, ones at 5, 8, 12, 18
GridB ==
    GridNew(<<GridLen>>,
            Array(<<GridLen>>,
                  [i \in 1..GridLen |-> IF (i - 1) \in {5, 8, 12, 18} THEN 1 ELSE 0]))

ExpectedB ==
    <<1, 1, 0, 1, 1, 1, 1, 1, 0, 0, 0, 1, 0, 0, 1, 1, 0, 1, 1, 1, 0, 0, 0, 1, 0, 0>>

InitB == AutomatonNew(GridB, Rule110)

NextB ==
    \/ call = "new" /\ CallAdvanceMulti(Generations)
    \/ AdvanceMultiLoop
    \/ AdvanceStep
    \/ AdvanceCommit

SpecB == InitB /\ [][NextB]_vars

TypeOK ==
    /\ pc \in {"idle", "loop", "sweep", "panicked"}
    /\ res \in {Ok} \cup Errors
    /\ gen \in (U32Max - 2)..MaxGen
    /\ Len(grid.cells) = Product(grid.shape)

\* ------------------------------------------------------------------ claims
\* the rules whose pattern is the neighborhood of c in grid g
Hits(g, c) ==
    {i \in 1..Len(rules) : rules[i].pattern = Neighborhood(g, c).val}

FirstHit(g, c) == CHOOSE i \in Hits(g, c) : \A j \in Hits(g, c) : i <= j

\* the coordinates of the live grid that advance has visited so far
Visited ==
    SubSeq(Coordinates(GridDims(grid)), 1,
           Len(Coordinates(GridDims(grid))) - Len(ci))

CoordinateSet(g) ==
    {Coordinates(g.shape)[k] : k \in 1..Len(Coordinates(g.shape))}

AdvanceReturnedOk == pc # "sweep" /\ adv_res = Ok

\* C1: when a lookup or a write of the sweep fails, advance returns that
\* failure at once, and the grid and the generation counter are the ones the
\* call started with: the new grid is not swapped in.
C1_FailedAdvanceChangesNothing ==
    adv_res \in Errors =>
        /\ pc = "idle"
        /\ res = adv_res
        /\ grid = adv_pre.grid
        /\ gen = adv_pre.gen
        /\ new_grid = NoGrid

\* a sweep that failed after it had written cells into the new grid
C1_Witness ==
    /\ adv_res = OutOfBounds
    /\ call = "advance"
    /\ wrote > 0

\* C2: during a sweep the grid is the pre-step grid, unmodified, and the new
\* grid is what the visited coordinates give when every neighborhood is read
\* from the pre-step grid: no lookup sees a value written in this generation.
C2_SynchronousUpdate ==
    pc = "sweep" =>
        /\ grid = adv_pre.grid
        /\ gen = adv_pre.gen
        /\ new_grid = Sweep(adv_pre.grid, NewGridSeed(adv_pre.grid), rules,
                            Visited).new_grid

\* the next neighborhood to read covers a cell this sweep has rewritten
C2_Witness ==
    /\ pc = "sweep"
    /\ ci # <<>>
    /\ wrote > 0
    /\ WellFormed(grid)
    /\ Neighborhood(grid, Head(ci)).val # Neighborhood(new_grid, Head(ci)).val

\* C3: after a successful advance, every coordinate whose pre-step
\* neighborhood matches a rule holds the output of the first matching rule.
C3_MatchedCellsTakeFirstOutput ==
    AdvanceReturnedOk =>
        \A c \in CoordinateSet(grid) :
            Hits(adv_pre.grid, c) # {} =>
                CellAt(grid, c) = rules[FirstHit(adv_pre.grid, c)].output

\* a successful advance where two rules matched a cell and the cell changed
C3_Witness ==
    /\ AdvanceReturnedOk
    /\ WellFormed(grid)
    /\ \E c \in CoordinateSet(grid) :
          /\ Cardinality(Hits(adv_pre.grid, c)) >= 2
          /\ CellAt(grid, c) # CellAt(adv_pre.grid, c)

\* C4: after a successful advance, every cell whose pre-step neighborhood
\* matches no rule holds the value it had before; with the one rule
\* [1,2,3] -> 4 the grid [1,2,3] becomes [1,4,3].
C4_UnmatchedCellsKeepValue ==
    AdvanceReturnedOk =>
        /\ \A c \in CoordinateSet(grid) :
              Hits(adv_pre.grid, c) = {} => CellAt(grid, c) = CellAt(adv_pre.grid, c)
        /\ (adv_pre.grid = GridA /\ rules = RulesA) => grid.cells = <<1, 4, 3>>

\* the advance of test_advance_generation has returned
C4_Witness ==
    /\ AdvanceReturnedOk
    /\ adv_pre.grid = GridA
    /\ rules = RulesA
    /\ grid.cells = <<1, 4, 3>>

\* advance_multi(1000) of test_rule_110_1000_generations has returned
ReturnedB ==
    /\ pc = "idle"
    /\ call = "advance_multi"
    /\ gens = Generations
    /\ call_pre.grid = GridB
    /\ rules = Rule110

\* C5, as amended: in scenario B every neighborhood of the sweep reads the
\* position past an edge from the opposite edge of the grid, and
\* advance_multi(1000) succeeds and leaves the grid of the test.
C5_ScenarioBWrapAround ==
    /\ (pc = "sweep" /\ ci # <<>>) =>
          LET c == Head(ci)[1] IN
          StepOutcome.err = Ok /\
          Neighborhood(grid, Head(ci)).val =
              << grid.cells[((c + GridLen - 1) % GridLen) + 1],
                 grid.cells[c + 1],
                 grid.cells[((c + 1) % GridLen) + 1] >>
    /\ ReturnedB => (res = Ok /\ grid.cells = ExpectedB)

\* the 1000 generations of scenario B are done
C5_Witness ==
    /\ ReturnedB
    /\ gen = Generations
    /\ completed = Generations

\* C5 as claimed: in scenario B every neighborhood of the sweep reads the
\* position past an edge as the background value 0, and advance_multi(1000)
\* succeeds and leaves the grid of the test.
C5_Original ==
    /\ (pc = "sweep" /\ ci # <<>>) =>
          LET c == Head(ci)[1] IN
          StepOutcome.err = Ok /\
          Neighborhood(grid, Head(ci)).val =
              << IF c = 0 THEN 0 ELSE grid.cells[c],
                 grid.cells[c + 1],
                 IF c = GridLen - 1 THEN 0 ELSE grid.cells[c + 2] >>
    /\ ReturnedB => (res = Ok /\ grid.cells = ExpectedB)

\* C6: the generation counter is the number of advance() executions that
\* completed successfully since construction; failed advances and set_point
\* leave it alone.
C6_GenCountsSuccessfulAdvances ==
    /\ gen = completed
    /\ (pc = "idle" /\ call = "set_point") => gen = call_pre.gen
    /\ adv_res \in Errors => gen = adv_pre.gen

\* an advance failed after others had completed
C6_Witness ==
    /\ completed >= 2
    /\ adv_res \in Errors
    /\ pc = "idle"

\* C7: advance_multi(n), n > 0, ends with the grid and the generation counter
\* that n calls of advance() one after the other give from the same state; a
\* single advance() ends with what one such call gives.
C7_MultiEqualsSequentialAdvances ==
    /\ (pc = "idle" /\ call = "advance_multi" /\ gens > 0) =>
          Snapshot = AdvanceTimes(gens, [grid |-> call_pre.grid, gen |-> call_pre.gen], rules)
    /\ (pc = "idle" /\ call = "advance") =>
          Snapshot = AdvanceTimes(1, [grid |-> call_pre.grid, gen |-> call_pre.gen], rules)

\* advance_multi(2) returned Ok and both generations changed the grid
C7_Witness ==
    /\ pc = "idle"
    /\ call = "advance_multi"
    /\ gens = 2
    /\ res = Ok
    /\ gen = call_pre.gen + 2
    /\ grid # call_pre.grid
    /\ grid # adv_pre.grid

\* C8: advance_multi(0) returns Ok and changes neither the grid nor the
\* generation counter.
C8_MultiZeroIsNoOp ==
    (pc = "idle" /\ call = "advance_multi" /\ gens = 0) =>
        /\ res = Ok
        /\ grid = call_pre.grid
        /\ gen = call_pre.gen

\* advance_multi(0) returned on an automaton that had advanced before
C8_Witness ==
    /\ pc = "idle"
    /\ call = "advance_multi"
    /\ gens = 0
    /\ gen > 0
    /\ started = 0

\* the first of n advances one after the other that fails, 0 when none does
RECURSIVE FirstFailure(_, _, _, _)
FirstFailure(k, n, a, rs) ==
    IF k > n THEN 0
    ELSE LET r == AdvanceFn(a, rs) IN
         IF r.err # Ok THEN k
         ELSE FirstFailure(k + 1, n, [grid |-> r.grid, gen |-> r.gen], rs)

\* C9: when the k-th advance of advance_multi(n) is the first to fail,
\* advance_multi returns that failure, has run k advances and no more, and
\* the grid and the generation counter are those of the k-1 advances before.
C9_MultiStopsAtFirstFailure ==
    (pc = "idle" /\ call = "advance_multi") =>
        LET a0 == [grid |-> call_pre.grid, gen |-> call_pre.gen]
            k == FirstFailure(1, gens, a0, rules)
        IN  k > 0 =>
              /\ res = AdvanceFn(AdvanceTimes(k - 1, a0, rules), rules).err
              /\ res \in Errors
              /\ started = k
              /\ Snapshot = AdvanceTimes(k - 1, a0, rules)
              /\ gen = call_pre.gen + k - 1

\* the second advance of an advance_multi failed after the first had changed the grid
C9_Witness ==
    /\ pc = "idle"
    /\ call = "advance_multi"
    /\ res \in Errors
    /\ started = 2
    /\ gen = call_pre.gen + 1
    /\ grid # call_pre.grid

\* C10: set_point on a valid coordinate returns Ok and leaves that cell at 1,
\* whatever it held; every other cell, the dims, the generation counter and
\* the rule table are unchanged.
C10_SetPointSetsOnlyThatCell ==
    (pc = "idle" /\ call = "set_point" /\ ValidCoordinate(call_pre.grid, point)) =>
        /\ res = Ok
        /\ CellAt(grid, point) = 1
        /\ \A c \in CoordinateSet(call_pre.grid) :
              c # point => CellAt(grid, c) = CellAt(call_pre.grid, c)
        /\ grid.dims = call_pre.grid.dims
        /\ grid.shape = call_pre.grid.shape
        /\ Len(grid.cells) = Len(call_pre.grid.cells)
        /\ gen = call_pre.gen
        /\ rules = call_pre.rules

\* set_point returned Ok on a cell that held a value other than 1
C10_Witness ==
    /\ pc = "idle"
    /\ call = "set_point"
    /\ res = Ok
    /\ ValidCoordinate(call_pre.grid, point)
    /\ CellAt(call_pre.grid, point) # 1
    /\ gen > 0

\* C11: set_point with a coordinate of the wrong length reports a shape
\* mismatch, with a coordinate of the right length and a component at or past
\* its axis size a bounds failure; either way the grid and the generation
\* counter are those before the call.
C11_SetPointFailureChangesNothing ==
    (pc = "idle" /\ call = "set_point" /\ ~ValidCoordinate(call_pre.grid, point)) =>
        /\ Len(point) # Len(call_pre.grid.dims) => res = ShapeMismatch
        /\ (/\ Len(point) = Len(call_pre.grid.dims)
            /\ \E i \in 1..Len(point) : point[i] >= call_pre.grid.dims[i])
              => res = OutOfBounds
        /\ res \in Errors
        /\ grid = call_pre.grid
        /\ gen = call_pre.gen

\* set_point returned a bounds failure on an automaton that had advanced
C11_Witness ==
    /\ pc = "idle"
    /\ call = "set_point"
    /\ Len(point) = Len(grid.dims)
    /\ \E i \in 1..Len(point) : point[i] >= grid.dims[i]
    /\ res = OutOfBounds
    /\ gen > 0

\* C12: an automaton just built by Automaton::new from a grid whose array has
\* the size of its dims has generation 0 and the grid it was given; the one of
\* test_advance_generation holds [1,2,3].
C12_NewAutomaton ==
    (call = "new" /\ WellFormed(call_pre.grid)) =>
        /\ gen = 0
        /\ GridSnapshot(grid) = GridSnapshot(call_pre.grid)
        /\ GridDims(grid) = GridDims(call_pre.grid)
        /\ rules = call_pre.rules
        /\ (rules = RulesA => GridSnapshot(grid) = Array(<<3>>, <<1, 2, 3>>))

\* the automaton of test_advance_generation before any call
C12_Witness ==
    /\ call = "new"
    /\ grid = GridA
    /\ rules = RulesA
    /\ pc = "idle"

C14_ApplyIsFirstMatch ==
    /\ rules = call_pre.rules
    /\ (pc = "sweep" /\ ci # <<>>) =>
          LET nb == Neighborhood(grid, Head(ci)).val
              m == RulesApply(rules, nb)
              hits == {i \in 1..Len(rules) : rules[i].pattern = nb}
          IN  /\ hits = {} => ~m.some
              /\ hits # {} =>
                    /\ m.some
                    /\ \E i \in hits : /\ \A j \in hits : i <= j
                                       /\ m.val = rules[i].output

\* the sweep looks up a neighborhood that is the pattern of two rules with
\* different outputs
C14_Witness ==
    /\ pc = "sweep"
    /\ ci # <<>>
    /\ \E i, j \in 1..Len(rules) :
          /\ i < j
          /\ rules[i].pattern = Neighborhood(grid, Head(ci)).val
          /\ rules[j].pattern = rules[i].pattern
          /\ rules[j].output # rules[i].output

\* C15 as claimed: whatever the operation, the generation counter after it is
\* greater than or equal to the counter before it, as unsigned 32-bit numbers.
C15_Original == [][U32Leq(gen, gen')]_vars

\* the vectors of offsets of a neighborhood of d axes
OffsetVectors(d) == [1..d -> {-1, 0, 1}]

\* place of the offset vector o in the nested order: first axis outermost,
\* offsets -1, 0, +1 ascending
RECURSIVE EntryIndexFrom(_, _, _)
EntryIndexFrom(o, i, d) ==
    IF i > d THEN 1 ELSE (o[i] + 1) * (3 ^ (d - i)) + EntryIndexFrom(o, i + 1, d)

EntryIndex(o, d) == EntryIndexFrom(o, 1, d)

AllValid(g) ==
    {p \in [1..Len(g.dims) -> 0..(Product(g.dims) - 1)] : ValidCoordinate(g, p)}

\* a comes before b in row-major order
LexLess(a, b) ==
    \E i \in 1..Len(a) : a[i] < b[i] /\ \A j \in 1..(i - 1) : a[j] = b[j]

\* l lists every valid coordinate of g once, in row-major order
RowMajorEnumeration(l, g) ==
    /\ Len(l) = Product(g.dims)
    /\ {l[k] : k \in 1..Len(l)} = AllValid(g)
    /\ \A k \in 1..(Len(l) - 1) : LexLess(l[k], l[k + 1])

\* C17: the coordinates a sweep has run on followed by those its iterator
\* has yet to produce are every valid coordinate once, in row-major order,
\* product(dims) in all; a completed sweep has run on each of them once and on
\* nothing else.
C17_SweepEnumeratesEveryCellOnce ==
    /\ pc = "sweep" => RowMajorEnumeration(seen \o ci, grid)
    /\ AdvanceReturnedOk => RowMajorEnumeration(seen, grid)

\* a sweep of the 2 by 2 grid has completed
C17_Witness ==
    /\ AdvanceReturnedOk
    /\ grid.dims = Dims2D
    /\ seen = << <<0, 0>>, <<0, 1>>, <<1, 0>>, <<1, 1>> >>
    /\ grid # adv_pre.grid

\* C18: no step of advance, advance_multi or set_point, successful or
\* failed, changes the dims of the grid, the shape of its array or the number
\* of its cells; a grid whose array has the size of the product of its dims
\* keeps that size.
C18_DimsAndSizeNeverChange ==
    [][/\ grid'.dims = grid.dims
       /\ grid'.shape = grid.shape
       /\ Len(grid'.cells) = Len(grid.cells)
       /\ WellFormed(grid) => Len(grid'.cells) = Product(grid'.dims)]_vars

\* a set_point failed on a 2-dimensional grid that advances had rewritten
C18_Witness ==
    /\ pc = "idle"
    /\ call = "set_point"
    /\ res \in Errors
    /\ completed >= 1
    /\ grid.dims = Dims2D
    /\ Len(grid.cells) = 4

\* C19: on a grid whose array has the size and shape of its dims, every
\* coordinate of a sweep is valid for the grid and for the new grid, every
\* iteration succeeds, and advance and advance_multi return Ok with every
\* generation committed.
C19_AdvanceNeverFailsOnWellFormedGrid ==
    WellFormed(grid) =>
        /\ adv_res \notin Errors
        /\ (pc = "sweep" /\ ci # <<>>) =>
              /\ ValidCoordinate(grid, Head(ci))
              /\ ValidCoordinate(new_grid, Head(ci))
              /\ StepOutcome.err = Ok
        /\ (pc = "idle" /\ call = "advance") =>
              (res = Ok /\ adv_res = Ok /\ gen = call_pre.gen + 1)
        /\ (pc = "idle" /\ call = "advance_multi") =>
              (res = Ok /\ gen = call_pre.gen + gens)

\* an advance returned Ok after a set_point had failed and every cell of the
\* sweep had been written
C19_Witness ==
    /\ pc = "idle"
    /\ call = "advance"
    /\ res = Ok
    /\ WellFormed(grid)
    /\ wrote = Len(grid.cells)
    /\ Len(grid.cells) >= 3
    /\ completed >= 2

\* the sequences that hold the elements of cs in some order
Orders(cs) ==
    LET n == Len(cs) IN
    {[i \in 1..n |-> cs[f[i]]] :
        f \in {h \in [1..n -> 1..n] : \A i, j \in 1..n : h[i] = h[j] => i = j}}

\* C20: the grid a successful advance commits is the one the loop of advance
\* produces from the pre-step grid when it visits the same coordinates in any
\* other order, and no such order fails.
C20_SweepOrderIsIrrelevant ==
    AdvanceReturnedOk =>
        \A p \in Orders(Coordinates(GridDims(adv_pre.grid))) :
            LET s == Sweep(adv_pre.grid, NewGridSeed(adv_pre.grid), rules, p) IN
            s.err = Ok /\ s.new_grid = grid

\* a successful advance changed two cells or more
C20_Witness ==
    /\ AdvanceReturnedOk
    /\ WellFormed(grid)
    /\ Cardinality({c \in CoordinateSet(grid) :
                       CellAt(grid, c) # CellAt(adv_pre.grid, c)}) >= 2

====
